---- MODULE Spec2Model ----
(***************************************************************************)
(* Model of src/stock_dashboard.py: a Streamlit script that is re-executed *)
(* top to bottom after every user interaction.  One run reads the widget   *)
(* values, looks the profile up, renders the company block and the key     *)
(* metrics, looks the history up and renders the chart, the statistics and *)
(* the table.                                                              *)
(*                                                                         *)
(* Python values are records tagged by t: "none" (None), "num" (a number   *)
(* with at most two decimals, v in hundredths; the volume is a plain       *)
(* integer), "big" (an integer neg * (hi * 10^6 + lo), used for the market *)
(* capitalisation, which does not fit 32 bits) and "str".                  *)
(* Texts typed by the user are sequences of one-character strings, display *)
(* strings are TLA+ strings, and a message is the sequence of the parts of *)
(* its f-string.                                                           *)
(***************************************************************************)
EXTENDS Integers, Sequences, FiniteSets, TLC

VARIABLES
    phase,            \* "idle" before the first run, then "ran"; "input"/"done" for the helper specifications
    event,            \* the interaction that caused the last run
    rawText,          \* value of the text_input widget (line 87)
    submit_button,    \* value of the button in the last run (line 90)
    ticker_input,     \* line 87: the symbol the script works with
    selected_period,  \* line 159: value of the selectbox, NotRendered when the run did not reach it
    profileStub,      \* what yf.Ticker(...).info does in this run
    historyStub,      \* what ticker.history(...) does in this run
    now,              \* datetime.now() of this run, in days
    calls,            \* provider calls issued by the last run, in order
    ui,               \* elements rendered by the last run, in order
    uncaught,         \* exception that left the script, "" when none
    num,              \* argument of format_large_number
    formatted         \* its result

vars == <<phase, event, rawText, submit_button, ticker_input, selected_period,
          profileStub, historyStub, now, calls, ui, uncaught, num, formatted>>

-----------------------------------------------------------------------------
(* Python values *)

None == [t |-> "none"]
Num(v) == [t |-> "num", v |-> v]
Str(s) == [t |-> "str", v |-> s]
Big(neg, hi, lo) == [t |-> "big", neg |-> neg, hi |-> hi, lo |-> lo]

Million == 1000000

\* bool(x) of a value
Truthy(x) ==
    CASE x.t = "none" -> FALSE
      [] x.t = "num" -> x.v # 0
      [] x.t = "str" -> x.v # ""
      [] x.t = "big" -> x.hi # 0 \/ x.lo # 0

\* d.get(k, default)
Get(d, k, default) == IF k \in DOMAIN d THEN d[k] ELSE default

-----------------------------------------------------------------------------
(* Format specifications of the f-strings *)

Pad2(n) == IF n < 10 THEN "0" \o ToString(n) ELSE ToString(n)

Pad3(n) == IF n < 10 THEN "00" \o ToString(n) ELSE IF n < 100 THEN "0" \o ToString(n) ELSE ToString(n)

Pad6(n) == Pad3(n \div 1000) \o Pad3(n % 1000)

Abs(n) == IF n < 0 THEN -n ELSE n

\* p / q (q > 0) rounded to the nearest integer, ties to even
RoundDiv(p, q) ==
    LET f == p \div q
        r == p % q
    IN  IF 2 * r < q THEN f
        ELSE IF 2 * r > q THEN f + 1
        ELSE IF f % 2 = 0 THEN f ELSE f + 1

\* ":.2f" of the number whose hundredths are h
Fixed2(h) ==
    (IF h < 0 THEN "-" ELSE "") \o ToString(Abs(h) \div 100) \o "." \o Pad2(Abs(h) % 100)

RECURSIVE GroupDigits(_)
GroupDigits(n) ==
    IF n < 1000 THEN ToString(n)
    ELSE GroupDigits(n \div 1000) \o "," \o Pad3(n % 1000)

\* ":," of an integer
Grouped(n) == (IF n < 0 THEN "-" ELSE "") \o GroupDigits(Abs(n))

-----------------------------------------------------------------------------
(* format_large_number, lines 47-61 *)

Trillion == Big(FALSE, Million, 0)
Billion == Big(FALSE, 1000, 0)
MillionBig == Big(FALSE, 1, 0)
Thousand == Big(FALSE, 0, 1000)

\* the comparison written > instead of >=
BigGE_strict(a, b) ==
    /\ ~a.neg
    /\ \/ a.hi > b.hi
       \/ a.hi = b.hi /\ a.lo > b.lo

\* a >= b for an integer a and a threshold b > 0
BigGE(a, b) ==
    /\ ~a.neg
    /\ \/ a.hi > b.hi
       \/ a.hi = b.hi /\ a.lo >= b.lo

Pow10(k) ==
    CASE k = 0 -> 1 [] k = 1 -> 10 [] k = 2 -> 100 [] k = 3 -> 1000 [] k = 4 -> 10000
      [] k = 5 -> 100000 [] k = 6 -> 1000000

\* ":.2f" of a / 10^(k+2), as hundredths: a / 10^k rounded; a >= 0
ScaledHundredths(a, k) ==
    IF k <= 6
    THEN LET d == Pow10(k)
         IN  a.hi * (Million \div d) + RoundDiv(a.lo, d)
    ELSE LET e == Pow10(k - 6)
             q == a.hi \div e
             rh == a.hi % e
         IN  IF 2 * rh > e \/ (2 * rh = e /\ a.lo > 0) THEN q + 1
             ELSE IF 2 * rh = e /\ a.lo = 0 THEN (IF q % 2 = 0 THEN q ELSE q + 1)
             ELSE q

\* ":.2f" of an integer
BigFixed2(a) ==
    (IF a.neg THEN "-" ELSE "")
        \o (IF a.hi = 0 THEN ToString(a.lo) ELSE ToString(a.hi) \o Pad6(a.lo))
        \o ".00"

format_large_number(n) ==
    IF n = None THEN "N/A"
    ELSE IF BigGE(n, Trillion) THEN "$" \o Fixed2(ScaledHundredths(n, 10)) \o "T"
    ELSE IF BigGE(n, Billion) THEN "$" \o Fixed2(ScaledHundredths(n, 7)) \o "B"
    ELSE IF BigGE(n, MillionBig) THEN "$" \o Fixed2(ScaledHundredths(n, 4)) \o "M"
    ELSE IF BigGE(n, Thousand) THEN "$" \o Fixed2(ScaledHundredths(n, 1)) \o "K"
    ELSE "$" \o BigFixed2(n)

-----------------------------------------------------------------------------
(* Rendered elements *)

NoDelta == "<None>"

Message(kind, parts) == [kind |-> kind, text |-> parts, value |-> "", delta |-> NoDelta]

Metric(label, value, delta) == [kind |-> "metric", text |-> <<label>>, value |-> value, delta |-> delta]

Element(kind, parts) == [kind |-> kind, text |-> parts, value |-> "", delta |-> NoDelta]

\* the evaluation of one statement: the element it renders, or the exception it raises
Ok(el) == [exc |-> "", el |-> el]
Raise(e) == [exc |-> e, el |-> None]

\* statements run in order; the first exception ends the run, what was rendered stays
RECURSIVE RunSteps(_, _)
RunSteps(steps, done) ==
    IF steps = <<>> THEN [ui |-> done, exc |-> ""]
    ELSE IF Head(steps).exc # "" THEN [ui |-> done, exc |-> Head(steps).exc]
    ELSE RunSteps(Tail(steps), Append(done, Head(steps).el))

\* the exception of format(x, ".2f") or format(x, ",") for a value that is no number
FormatError(x) ==
    CASE x.t = "none" -> "TypeError"
      [] x.t = "str" -> "ValueError"
      [] OTHER -> ""

-----------------------------------------------------------------------------
(* Key Stock Metrics, lines 124-149; d is the info dictionary *)

\* lines 131-139
CurrentPriceMetric(d) ==
    LET current_price == Get(d, "currentPrice", Str("N/A"))
    IN  IF ~(current_price.t = "str" /\ current_price.v = "N/A")
        THEN IF current_price.t # "num" THEN Raise(FormatError(current_price))
             ELSE IF "previousClose" \in DOMAIN d
             THEN LET previous == d["previousClose"]
                  IN  IF previous.t # "num" THEN Raise("TypeError")
                      ELSE IF previous.v = 0 THEN Raise("ZeroDivisionError")
                      ELSE Ok(Metric("Current Price", "$" \o Fixed2(current_price.v),
                                     Fixed2(RoundDiv(10000 * (current_price.v - previous.v), previous.v)) \o "%"))
             ELSE Ok(Metric("Current Price", "$" \o Fixed2(current_price.v), NoDelta))
        ELSE Ok(Metric("Current Price", "N/A", NoDelta))

\* line 141
PreviousCloseMetric(d) ==
    IF "previousClose" \in DOMAIN d
    THEN IF d["previousClose"].t # "num" THEN Raise(FormatError(d["previousClose"]))
         ELSE Ok(Metric("Previous Close", "$" \o Fixed2(d["previousClose"].v), NoDelta))
    ELSE Ok(Metric("Previous Close", "N/A", NoDelta))

\* line 144
MarketCapMetric(d) == Ok(Metric("Market Cap", format_large_number(Get(d, "marketCap", None)), NoDelta))

\* line 145; the volume is an integer
VolumeMetric(d) ==
    IF "volume" \in DOMAIN d
    THEN IF d["volume"].t # "num" THEN Raise(FormatError(d["volume"]))
         ELSE Ok(Metric("Volume", Grouped(d["volume"].v), NoDelta))
    ELSE Ok(Metric("Volume", "N/A", NoDelta))

\* line 148
PERatioMetric(d) ==
    IF "trailingPE" \in DOMAIN d /\ Truthy(d["trailingPE"])
    THEN IF d["trailingPE"].t # "num" THEN Raise(FormatError(d["trailingPE"]))
         ELSE Ok(Metric("P/E Ratio", Fixed2(d["trailingPE"].v), NoDelta))
    ELSE Ok(Metric("P/E Ratio", "N/A", NoDelta))

\* line 149
RangeMetric(d) ==
    IF "fiftyTwoWeekLow" \in DOMAIN d /\ "fiftyTwoWeekHigh" \in DOMAIN d
    THEN IF d["fiftyTwoWeekLow"].t # "num" THEN Raise(FormatError(d["fiftyTwoWeekLow"]))
         ELSE IF d["fiftyTwoWeekHigh"].t # "num" THEN Raise(FormatError(d["fiftyTwoWeekHigh"]))
         ELSE Ok(Metric("52 Week Range",
                        "$" \o Fixed2(d["fiftyTwoWeekLow"].v) \o " - $" \o Fixed2(d["fiftyTwoWeekHigh"].v),
                        NoDelta))
    ELSE Ok(Metric("52 Week Range", "N/A", NoDelta))

KeyMetrics(d) ==
    RunSteps(<<Ok(Element("subheader", <<"Key Stock Metrics">>)),
               CurrentPriceMetric(d), PreviousCloseMetric(d),
               MarketCapMetric(d), VolumeMetric(d),
               PERatioMetric(d), RangeMetric(d),
               Ok(Element("markdown", <<"---">>))>>, <<>>)

-----------------------------------------------------------------------------
(* Texts *)

UpperChar(c) ==
    CASE c = "a" -> "A"
      [] c = "p" -> "P"
      [] c = "l" -> "L"
      [] OTHER -> c

\* str.upper(), line 87
upper(s) == [i \in 1..Len(s) |-> UpperChar(s[i])]

\* the characters of a text as one string, for interpolation into a message
RECURSIVE Text(_)
Text(s) == IF s = <<>> THEN "" ELSE Head(s) \o Text(Tail(s))

-----------------------------------------------------------------------------
(* The provider *)

Dict(d) == [t |-> "dict", d |-> d]
Ticker(sym) == [t |-> "ticker", sym |-> sym]
Frame(rows) == [t |-> "frame", rows |-> rows]

\* truth value of the objects tested at lines 100 and 163
TruthyObject(x) ==
    CASE x.t = "none" -> FALSE
      [] x.t = "dict" -> DOMAIN x.d # {}
      [] x.t = "ticker" -> TRUE

Raises(msg) == [out |-> "raise", msg |-> msg]
Returns(v) == [out |-> "return", v |-> v]
NotCalled == [out |-> "not called"]

\* the except branch hands back the ticker and a dictionary describing the error
get_stock_data_keeps_ticker(ticker_symbol, stub) ==
    IF stub.out = "return"
    THEN [ticker |-> Ticker(ticker_symbol), info |-> Dict(stub.v),
          calls |-> <<[op |-> "info", sym |-> ticker_symbol]>>, ui |-> <<>>]
    ELSE [ticker |-> Ticker(ticker_symbol), info |-> Dict([error |-> Str(stub.msg)]),
          calls |-> <<[op |-> "info", sym |-> ticker_symbol]>>,
          ui |-> <<Message("error", <<"Error fetching data for ", Text(ticker_symbol), ": ", stub.msg>>)>>]

\* the except branch reports nothing
get_stock_data_silent(ticker_symbol, stub) ==
    IF stub.out = "return"
    THEN [ticker |-> Ticker(ticker_symbol), info |-> Dict(stub.v),
          calls |-> <<[op |-> "info", sym |-> ticker_symbol]>>, ui |-> <<>>]
    ELSE [ticker |-> None, info |-> None,
          calls |-> <<[op |-> "info", sym |-> ticker_symbol]>>, ui |-> <<>>]

\* lines 15-23; stub is what the provider does when asked for the profile
get_stock_data(ticker_symbol, stub) ==
    IF stub.out = "return"
    THEN [ticker |-> Ticker(ticker_symbol), info |-> Dict(stub.v),
          calls |-> <<[op |-> "info", sym |-> ticker_symbol]>>, ui |-> <<>>]
    ELSE [ticker |-> None, info |-> None,
          calls |-> <<[op |-> "info", sym |-> ticker_symbol]>>,
          ui |-> <<Message("error", <<"Error fetching data for ", Text(ticker_symbol), ": ", stub.msg>>)>>]

\* six months counted as 183 days
StartDate_183(end_date, period) ==
    IF period = "1 Week" THEN end_date - 7
    ELSE IF period = "1 Month" THEN end_date - 30
    ELSE IF period = "6 Months" THEN end_date - 183
    ELSE IF period = "1 Year" THEN end_date - 365
    ELSE end_date - 30

\* lines 30-39
StartDate(end_date, period) ==
    IF period = "1 Week" THEN end_date - 7
    ELSE IF period = "1 Month" THEN end_date - 30
    ELSE IF period = "6 Months" THEN end_date - 180
    ELSE IF period = "1 Year" THEN end_date - 365
    ELSE end_date - 30

\* the i-th row of a history: prices in hundredths
Row(i) == [Open |-> 10000 + i, High |-> 10200 + i, Low |-> 9900 + i, Close |-> 10100 + i,
           Volume |-> 1000 * i]

\* a failed lookup is tried a second time
get_historical_data_retry(ticker, period, clock, stub) ==
    LET end_date == clock
        start_date == StartDate(end_date, period)
        call == [op |-> "history", sym |-> ticker.sym, start |-> start_date, end |-> end_date]
    IN  IF stub.out = "return"
        THEN [hist_data |-> Frame([i \in 1..stub.v |-> Row(i)]), calls |-> <<call>>, ui |-> <<>>]
        ELSE [hist_data |-> None, calls |-> <<call, call>>,
              ui |-> <<Message("error", <<"Error fetching historical data: ", stub.msg>>)>>]

\* lines 25-45; clock is datetime.now(), stub what the provider does when asked for the history
get_historical_data(ticker, period, clock, stub) ==
    LET end_date == clock
        start_date == StartDate(end_date, period)
        call == [op |-> "history", sym |-> ticker.sym, start |-> start_date, end |-> end_date]
    IN  IF stub.out = "return"
        THEN [hist_data |-> Frame([i \in 1..stub.v |-> Row(i)]), calls |-> <<call>>, ui |-> <<>>]
        ELSE [hist_data |-> None, calls |-> <<call>>,
              ui |-> <<Message("error", <<"Error fetching historical data: ", stub.msg>>)>>]

-----------------------------------------------------------------------------
(* The script, lines 84-233 *)

NotRendered == "<not rendered>"

time_periods == <<"1 Week", "1 Month", "6 Months", "1 Year">>

\* str(x) of a value interpolated into a text
Display(x) ==
    CASE x.t = "str" -> x.v
      [] x.t = "none" -> "None"
      [] x.t = "num" -> Fixed2(x.v)

\* lines 109-119: a line of the company block, rendered when the key is present and truthy
OptionalLine(d, key, label) ==
    IF key \in DOMAIN d /\ Truthy(d[key])
    THEN <<Element("markdown", <<label, Display(d[key])>>)>>
    ELSE <<>>

\* line 103
CompanyName(d, symbol) == Display(Get(d, "longName", Str(Text(symbol))))

\* lines 102-122
CompanyInfo(d, symbol) ==
    <<Element("subheader", <<"Company Information">>),
      Element("markdown", <<"### ", CompanyName(d, symbol)>>)>>
    \o OptionalLine(d, "sector", "**Sector:** ")
    \o OptionalLine(d, "industry", "**Industry:** ")
    \o OptionalLine(d, "website", "**Website:** ")
    \o OptionalLine(d, "longBusinessSummary", "**Business Summary:**")
    \o <<Element("markdown", <<"---">>)>>

\* lines 163-231
HistoryBlock(hist_data, company_name, symbol, period) ==
    IF hist_data # None /\ Len(hist_data.rows) > 0
    THEN LET last == hist_data.rows[Len(hist_data.rows)]
         IN  <<[kind |-> "plotly_chart", text |-> <<company_name, " Stock Price (", period, ")">>,
                value |-> ToString(Len(hist_data.rows)), delta |-> NoDelta],
               Element("subheader", <<"Price Statistics">>),
               Metric("Open", "$" \o Fixed2(last.Open), NoDelta),
               Metric("High", "$" \o Fixed2(last.High), NoDelta),
               Metric("Low", "$" \o Fixed2(last.Low), NoDelta),
               Metric("Close", "$" \o Fixed2(last.Close), NoDelta),
               [kind |-> "dataframe", text |-> <<"View Historical Data Table">>,
                value |-> ToString(Len(hist_data.rows)), delta |-> NoDelta]>>
    ELSE <<Message("error", <<"No historical data available for ", Text(symbol),
                              " over the selected time period.">>)>>

Outcome(symbol, period, issued, rendered, exc) ==
    [ticker_input |-> symbol, selected_period |-> period, calls |-> issued,
     ui |-> rendered, uncaught |-> exc]

\* lines 100-231: the branch taken when the profile lookup gave a ticker and a non-empty info
ShowStock(symbol, got, widgetPeriod, hstub, clock) ==
    LET d == got.info.d
        company == CompanyInfo(d, symbol)
        metrics == KeyMetrics(d)
    IN  IF metrics.exc # ""
        THEN Outcome(symbol, NotRendered, got.calls, got.ui \o company \o metrics.ui, metrics.exc)
        ELSE LET hist == get_historical_data(got.ticker, widgetPeriod, clock, hstub)
             IN  Outcome(symbol, widgetPeriod, got.calls \o hist.calls,
                         got.ui \o company \o metrics.ui
                             \o <<Element("subheader", <<"Historical Price Chart">>),
                                  [kind |-> "selectbox", text |-> <<"Select Time Frame">>,
                                   value |-> widgetPeriod, delta |-> NoDelta]>>
                             \o hist.ui
                             \o HistoryBlock(hist.hist_data, CompanyName(d, symbol), symbol, widgetPeriod),
                         "")

\* the body runs only when the button was clicked
ShouldRun_button_only(symbol, button) == button

\* line 93
ShouldRun(symbol, button) == button \/ symbol # <<>>

\* lines 93-233
Guarded(symbol, button, widgetPeriod, pstub, hstub, clock) ==
    IF ~ShouldRun(symbol, button) THEN Outcome(symbol, NotRendered, <<>>, <<>>, "")
    ELSE IF symbol = <<>>
    THEN Outcome(symbol, NotRendered, <<>>,
                 <<Message("warning", <<"Please enter a stock ticker symbol.">>)>>, "")
    ELSE LET got == get_stock_data(symbol, pstub)
         IN  IF TruthyObject(got.ticker) /\ TruthyObject(got.info)
             THEN ShowStock(symbol, got, widgetPeriod, hstub, clock)
             ELSE Outcome(symbol, NotRendered, got.calls,
                          got.ui \o <<Message("error", <<"Could not find stock data for ticker '",
                                                         Text(symbol),
                                                         "'. Please check the symbol and try again.">>)>>,
                          "")

\* line 87
Normalize(raw) == upper(raw)

\* one execution of the script, top to bottom
Script(raw, button, widgetPeriod, pstub, hstub, clock) ==
    Guarded(Normalize(raw), button, widgetPeriod, pstub, hstub, clock)

-----------------------------------------------------------------------------
(* The environment: what the user types and what the provider answers *)

MaxLen == 2
MaxRows == 1
MaxNow == 20

Alphabet == {" ", "a"}

Texts == UNION {[1..n -> Alphabet] : n \in 0..MaxLen}

\* line 87: the text the input holds before the user types
DefaultText == <<"A", "A", "P", "L">>

\* line 159: index=1
DefaultPeriod == time_periods[2]

Periods == {time_periods[i] : i \in 1..Len(time_periods)}

FullProfile ==
    [longName |-> Str("Apple Inc."), sector |-> Str("Technology"), website |-> Str(""),
     currentPrice |-> Num(10100), previousClose |-> Num(10000),
     marketCap |-> Big(FALSE, 2500000, 0), volume |-> Num(1234567), trailingPE |-> Num(2850),
     fiftyTwoWeekLow |-> Num(9000), fiftyTwoWeekHigh |-> Num(11000)]

Profiles ==
    {<<>>,
     FullProfile,
     [trailingPegRatio |-> None],
     [FullProfile EXCEPT !.previousClose = Num(0)]}

ProfileStubs == {Raises("HTTPError")} \cup {Returns(d) : d \in Profiles}

HistoryStubs == {Raises("Timeout")} \cup {Returns(n) : n \in 0..MaxRows}

\* the instants at which a run of the page may read the clock
Clocks == {MaxNow}

\* the provider is asked for the profile / the history in a run with these widget values
IssuesInfo(raw, button) ==
    Script(raw, button, DefaultPeriod, Returns(<<>>), Returns(0), 0).calls # <<>>

IssuesHistory(raw, button, pstub) ==
    Len(Script(raw, button, DefaultPeriod, pstub, Returns(0), 0).calls) > 1

\* the value the selectbox takes in the next run: its state is kept only while it is rendered
WidgetPeriod == IF selected_period = NotRendered THEN DefaultPeriod ELSE selected_period

Init ==
    /\ phase = "idle"
    /\ event = "none"
    /\ rawText = DefaultText
    /\ submit_button = FALSE
    /\ ticker_input = <<>>
    /\ selected_period = NotRendered
    /\ profileStub = NotCalled
    /\ historyStub = NotCalled
    /\ now = 0
    /\ calls = <<>>
    /\ ui = <<>>
    /\ uncaught = ""
    /\ num = None
    /\ formatted = ""

\* the script runs with the given widget values; the provider answers when it is asked
Rerun(ev, raw, button, widgetPeriod) ==
    \E pstub \in (IF IssuesInfo(raw, button) THEN ProfileStubs ELSE {NotCalled}) :
    \E hstub \in (IF IssuesHistory(raw, button, pstub) THEN HistoryStubs ELSE {NotCalled}) :
    \E clock \in (IF hstub = NotCalled THEN {now} ELSE Clocks) :
    \E out \in {Script(raw, button, widgetPeriod, pstub, hstub, clock)} :
            /\ phase' = "ran"
            /\ event' = ev
            /\ rawText' = raw
            /\ submit_button' = button
            /\ ticker_input' = out.ticker_input
            /\ selected_period' = out.selected_period
            /\ profileStub' = pstub
            /\ historyStub' = hstub
            /\ now' = clock
            /\ calls' = out.calls
            /\ ui' = out.ui
            /\ uncaught' = out.uncaught
            /\ UNCHANGED <<num, formatted>>

\* the page is opened: the first run, with the widgets' defaults
Load ==
    /\ phase = "idle"
    /\ Rerun("load", DefaultText, FALSE, DefaultPeriod)

\* the user changes the text of the input
EnterText ==
    /\ phase = "ran"
    /\ \E raw \in Texts \ {rawText} : Rerun("text", raw, FALSE, WidgetPeriod)

\* the user clicks "Get Stock Data"
ClickButton ==
    /\ phase = "ran"
    /\ Rerun("button", rawText, TRUE, WidgetPeriod)

\* the user picks another time frame; the selectbox exists only when the last run rendered it
SelectPeriod ==
    /\ phase = "ran"
    /\ selected_period # NotRendered
    /\ \E p \in Periods \ {selected_period} : Rerun("period", rawText, FALSE, p)

Next == Load \/ EnterText \/ ClickButton \/ SelectPeriod

Spec == Init /\ [][Next]_vars

-----------------------------------------------------------------------------
(* format_large_number on its own: the argument is drawn, then formatted *)

Numbers ==
    {None}
    \cup {Big(FALSE, hi, lo) : hi \in {0, 1, 2, 999, 1000, 2500, 999999, 1000000, 2500000},
                               lo \in {0, 1, 999, 1000, 1234, 500000, 999994, 999999}}
    \cup {Big(TRUE, hi, lo) : hi \in {0, 1, 1000000}, lo \in {1, 999, 1000}}

Idle ==
    /\ event = "none"
    /\ rawText = DefaultText
    /\ submit_button = FALSE
    /\ ticker_input = <<>>
    /\ calls = <<>>
    /\ ui = <<>>
    /\ uncaught = ""
    /\ formatted = ""

InitFormat ==
    /\ Idle
    /\ phase = "input"
    /\ num \in Numbers
    /\ selected_period = NotRendered
    /\ profileStub = NotCalled
    /\ historyStub = NotCalled
    /\ now = 0

Format ==
    /\ phase = "input"
    /\ phase' = "done"
    /\ formatted' = format_large_number(num)
    /\ UNCHANGED <<event, rawText, submit_button, ticker_input, selected_period,
                   profileStub, historyStub, now, calls, ui, uncaught, num>>

SpecFormat == InitFormat /\ [][Format]_vars

-----------------------------------------------------------------------------
(* The key metrics on their own: a profile is drawn, then rendered *)

Missing == [t |-> "missing"]

FieldChoices ==
    [currentPrice : {Missing, None, Num(10100)},
     previousClose : {Missing, None, Num(0), Num(10000)},
     marketCap : {Missing, None, Big(FALSE, 2500000, 0)},
     volume : {Missing, None, Num(1234567)},
     trailingPE : {Missing, None, Num(0), Num(2850)},
     fiftyTwoWeekLow : {Missing, None, Num(9000)},
     fiftyTwoWeekHigh : {Missing, None, Num(11000)}]

\* the dictionary holding the fields that are not missing, and the name
ProfileOf(c) ==
    [k \in {"longName"} \cup {f \in DOMAIN c : c[f].t # "missing"} |->
        IF k = "longName" THEN Str("Apple Inc.") ELSE c[k]]

AllProfiles == {ProfileOf(c) : c \in FieldChoices}

InitMetrics ==
    /\ Idle
    /\ phase = "input"
    /\ num = None
    /\ selected_period = NotRendered
    /\ profileStub \in {Returns(d) : d \in AllProfiles}
    /\ historyStub = NotCalled
    /\ now = 0

RenderMetrics ==
    /\ phase = "input"
    /\ phase' = "done"
    /\ \E out \in {KeyMetrics(profileStub.v)} :
        /\ ui' = out.ui
        /\ uncaught' = out.exc
    /\ UNCHANGED <<event, rawText, submit_button, ticker_input, selected_period,
                   profileStub, historyStub, now, calls, num, formatted>>

SpecMetrics == InitMetrics /\ [][RenderMetrics]_vars

-----------------------------------------------------------------------------
(* get_historical_data on its own: period, clock and provider are drawn *)

AnyPeriod == Periods \cup {"5 Years", ""}

InitWindow ==
    /\ Idle
    /\ phase = "input"
    /\ num = None
    /\ selected_period \in AnyPeriod
    /\ profileStub = NotCalled
    /\ historyStub \in HistoryStubs
    /\ now \in 0..MaxNow

FetchHistory ==
    /\ phase = "input"
    /\ phase' = "done"
    /\ \E out \in {get_historical_data(Ticker(Normalize(rawText)), selected_period, now, historyStub)} :
        /\ calls' = out.calls
        /\ ui' = out.ui
    /\ UNCHANGED <<event, rawText, submit_button, ticker_input, selected_period,
                   profileStub, historyStub, now, uncaught, num, formatted>>

SpecWindow == InitWindow /\ [][FetchHistory]_vars

-----------------------------------------------------------------------------
(* What a run shows, in the words of the properties below *)

IsSpace(c) == c = " "

RECURSIVE LStrip(_)
LStrip(s) == IF s # <<>> /\ IsSpace(Head(s)) THEN LStrip(Tail(s)) ELSE s

RECURSIVE RStrip(_)
RStrip(s) == IF s # <<>> /\ IsSpace(s[Len(s)]) THEN RStrip(SubSeq(s, 1, Len(s) - 1)) ELSE s

\* the text without its surrounding whitespace
Strip(s) == RStrip(LStrip(s))

MessageKinds == {"error", "warning", "info", "success"}

IsMessage(el) == el.kind \in MessageKinds

Messages == SelectSeq(ui, IsMessage)

Shown(kind) == \E i \in 1..Len(ui) : ui[i].kind = kind

ShownText(kind, first) == \E i \in 1..Len(ui) : ui[i].kind = kind /\ ui[i].text[1] = first

MetricShown(label) == \E i \in 1..Len(ui) : ui[i].kind = "metric" /\ ui[i].text = <<label>>

\* the metric with this label shows this value
MetricIs(label, value) ==
    \E i \in 1..Len(ui) : ui[i].kind = "metric" /\ ui[i].text = <<label>> /\ ui[i].value = value

IsCouldNotFind(el) ==
    /\ el.kind = "error"
    /\ el.text = <<"Could not find stock data for ticker '", Text(ticker_input),
                   "'. Please check the symbol and try again.">>

IsNoHistory(el) ==
    /\ IsMessage(el)
    /\ el.text = <<"No historical data available for ", Text(ticker_input),
                   " over the selected time period.">>

Issued(op) == \E i \in 1..Len(calls) : calls[i].op = op

CountIssued(op) == Cardinality({i \in 1..Len(calls) : calls[i].op = op})

ProfileRaised == profileStub.out = "raise"

ProfileEmpty == profileStub.out = "return" /\ DOMAIN profileStub.v = {}

ProfileFound == profileStub.out = "return" /\ DOMAIN profileStub.v # {}

\* the states of the controller
Failed == \E i \in 1..Len(ui) : IsCouldNotFind(ui[i])

EmptyInputFailure == ShownText("warning", "Please enter a stock ticker symbol.")

Displaying == uncaught = "" /\ Shown("selectbox") /\ ShownText("subheader", "Company Information")

-----------------------------------------------------------------------------
(* C1 *)

\* C1: the symbol the script works with is the typed text trimmed and uppercased,
\* and a run on an empty or whitespace-only text warns about the empty input and
\* asks the provider for nothing.
C1_TrimmedUppercased ==
    phase = "ran" =>
        /\ ticker_input = upper(Strip(rawText))
        /\ Strip(rawText) = <<>> =>
               /\ calls = <<>>
               /\ ~Failed
               /\ submit_button => EmptyInputFailure

-----------------------------------------------------------------------------
(* C2 *)

\* C2 as stated: a run caused by choosing another period issues the history lookup
\* and no profile lookup.
C2_PeriodChangeHistoryOnly ==
    event = "period" => ~Issued("info")

\* C2 amended: a run caused by choosing another period, like one caused by typing
\* another non-empty symbol, issues the profile lookup for the current symbol first,
\* and issues the history lookup only when that lookup returned a non-empty profile.
C2_EveryRunLooksUpProfile ==
    (event = "period" \/ (event = "text" /\ ticker_input # <<>>)) =>
        /\ calls # <<>>
        /\ calls[1] = [op |-> "info", sym |-> ticker_input]
        /\ Issued("history") => ProfileFound

C2_PeriodChanged ==
    /\ event = "period"
    /\ selected_period = "1 Year"
    /\ Len(calls) = 2
    /\ calls[1].op = "info"
    /\ calls[2].op = "history"

-----------------------------------------------------------------------------
(* C5 *)

\* C5: when the profile lookup raises, the run ends Failed with no uncaught
\* exception, renders no metric, chart or table, issues no history lookup, and
\* shows a message that names the requested symbol.
C5_LookupRaisesFailed ==
    (phase = "ran" /\ ProfileRaised) =>
        /\ ticker_input # <<>>
        /\ uncaught = ""
        /\ Failed
        /\ ~Shown("metric") /\ ~Shown("plotly_chart") /\ ~Shown("dataframe") /\ ~Shown("subheader")
        /\ ~Issued("history")
        /\ \E i \in 1..Len(Messages) :
               \E j \in 1..Len(Messages[i].text) : Messages[i].text[j] = Text(ticker_input)

C5_Raised == phase = "ran" /\ ProfileRaised /\ Failed /\ Len(calls) = 1

-----------------------------------------------------------------------------
(* C6 *)

-----------------------------------------------------------------------------
(* C7 *)

\* C7: with a profile found and a history of zero rows the run ends Displaying,
\* with profile and metrics, without chart, statistics or table, never Failed, and
\* the "no historical data" message is informational, not an error.
C7_EmptyHistoryIsInformational ==
    (phase = "ran" /\ ProfileFound /\ historyStub = Returns(0)) =>
        /\ Displaying
        /\ ~Failed
        /\ MetricShown("Current Price")
        /\ ~Shown("plotly_chart") /\ ~Shown("dataframe") /\ ~MetricShown("Close")
        /\ \E i \in 1..Len(ui) : IsNoHistory(ui[i]) /\ ui[i].kind = "info"
        /\ \A i \in 1..Len(ui) : ui[i].kind # "error"

-----------------------------------------------------------------------------
(* C10 *)

\* C10: a run issues the profile lookup at most once and the history lookup at
\* most once, the history lookup only after the profile lookup returned a
\* non-empty profile; after a lookup fails nothing more is asked of the provider;
\* a history lookup that raises leaves no uncaught exception, shows its message
\* and keeps the profile on the page.
C10_OrderedNoRetry ==
    phase = "ran" =>
        /\ CountIssued("info") <= 1
        /\ CountIssued("history") <= 1
        /\ CountIssued("info") + CountIssued("history") = Len(calls)
        /\ Issued("history") => calls[1].op = "info" /\ calls[2].op = "history" /\ ProfileFound
        /\ (ProfileRaised \/ ProfileEmpty) => Len(calls) = 1
        /\ historyStub.out = "raise" =>
               /\ Len(calls) = 2
               /\ uncaught = ""
               /\ ShownText("error", "Error fetching historical data: ")
               /\ ShownText("subheader", "Company Information")
               /\ MetricShown("Market Cap")

C10_HistoryRaised == phase = "ran" /\ historyStub.out = "raise" /\ Len(calls) = 2 /\ Displaying

-----------------------------------------------------------------------------
(* C3, C4: under SpecMetrics *)

\* the field is absent from the profile: its key is missing or its value is None
Absent(field) == field \notin DOMAIN profileStub.v \/ profileStub.v[field] = None

\* C3: whatever optional fields are absent, key missing or value None, the key
\* metrics are rendered without an uncaught error and each absent field shows "N/A".
C3_AbsentFieldsShowPlaceholder ==
    phase = "done" =>
        /\ uncaught = ""
        /\ Absent("currentPrice") => MetricIs("Current Price", "N/A")
        /\ Absent("previousClose") => MetricIs("Previous Close", "N/A")
        /\ Absent("marketCap") => MetricIs("Market Cap", "N/A")
        /\ Absent("volume") => MetricIs("Volume", "N/A")
        /\ Absent("trailingPE") => MetricIs("P/E Ratio", "N/A")
        /\ (Absent("fiftyTwoWeekLow") \/ Absent("fiftyTwoWeekHigh")) => MetricIs("52 Week Range", "N/A")

\* C4: with a current price and a previous close that is missing or zero, the
\* Current Price metric is rendered without a delta and raises no error (no
\* division by zero), so that the run goes on to the remaining metrics.
C4_NoUsablePreviousClose ==
    (/\ phase = "done"
     /\ ~Absent("currentPrice")
     /\ ("previousClose" \notin DOMAIN profileStub.v \/ profileStub.v["previousClose"] = Num(0))) =>
        /\ uncaught # "ZeroDivisionError"
        /\ \E i \in 1..Len(ui) :
               ui[i].kind = "metric" /\ ui[i].text = <<"Current Price">> /\ ui[i].delta = NoDelta

-----------------------------------------------------------------------------
(* C8: under SpecWindow *)

\* C8: the window handed to the history lookup ends now and starts 7, 30, 180 or
\* 365 days earlier for 1 Week, 1 Month, 6 Months and 1 Year, and 30 days
\* earlier for any other period.
C8_WindowMatchesTable ==
    phase = "done" =>
        /\ Len(calls) = 1
        /\ calls[1].op = "history"
        /\ calls[1].end = now
        /\ calls[1].start = now - (CASE selected_period = "1 Week" -> 7
                                     [] selected_period = "1 Month" -> 30
                                     [] selected_period = "6 Months" -> 180
                                     [] selected_period = "1 Year" -> 365
                                     [] OTHER -> 30)

C8_HalfYearWindow ==
    /\ phase = "done"
    /\ selected_period = "6 Months"
    /\ now = MaxNow
    /\ calls[1].start = MaxNow - 180

-----------------------------------------------------------------------------
(* C9: under SpecFormat *)

Suffixes ==
    {[suffix |-> "T", hi |-> 1000000, lo |-> 0, exp |-> 12],
     [suffix |-> "B", hi |-> 1000, lo |-> 0, exp |-> 9],
     [suffix |-> "M", hi |-> 1, lo |-> 0, exp |-> 6],
     [suffix |-> "K", hi |-> 0, lo |-> 1000, exp |-> 3]}

\* the thresholds that are <= x
Applicable(x) == {s \in Suffixes : ~x.neg /\ (x.hi > s.hi \/ (x.hi = s.hi /\ x.lo >= s.lo))}

Largest(S) == CHOOSE s \in S : \A u \in S : u.exp <= s.exp

\* C9: None gives "N/A"; a number at or above 1000 is divided by the largest of
\* 10^12, 10^9, 10^6, 10^3 that is <= it and printed with "$", two decimals and
\* that suffix; a number below 1000 is printed as "$" and two decimals.
C9_LargestSuffix ==
    phase = "done" =>
        /\ num = None => formatted = "N/A"
        /\ (num # None /\ Applicable(num) = {}) => formatted = "$" \o BigFixed2(num)
        /\ (num # None /\ Applicable(num) # {}) =>
               formatted = "$" \o Fixed2(ScaledHundredths(num, Largest(Applicable(num)).exp - 2))
                               \o Largest(Applicable(num)).suffix
        /\ num = Big(FALSE, 2500, 0) => formatted = "$2.50B"
        /\ num = Big(FALSE, 0, 999) => formatted = "$999.00"
        /\ num = Big(FALSE, 0, 1000) => formatted = "$1.00K"
        /\ num = Big(FALSE, 0, 0) => formatted = "$0.00"
        /\ num = Big(FALSE, 1000000, 0) => formatted = "$1.00T"

C9_Billions == phase = "done" /\ num = Big(FALSE, 2500, 0) /\ formatted = "$2.50B"

====
